---- MODULE Spec2Model ----
(***************************************************************************)
(* A model of the DJIA risk/return engine of src/src/analysis.py:          *)
(* calculate_return, calculate_std, calculate_sharpe_ratio and             *)
(* test_hypothesis, with the pandas / numpy / scipy operations they call   *)
(* (sort_values, groupby.pct_change, groupby.mean, groupby.std, merge,     *)
(* element-wise arithmetic, linregress).                                   *)
(*                                                                         *)
(* Numbers.  A float64 is modelled by an exact value: a rational n/d in    *)
(* lowest terms, +inf, -inf or NaN, with IEEE-754 rules for the special    *)
(* values (x/0 = +-inf, 0/0 = NaN, inf-inf = NaN, every comparison with    *)
(* NaN false).  Rounding and the sign of zero are not modelled.  A         *)
(* standard deviation is the square root of a rational, so a value that    *)
(* went through a square root is kept as sgn * sqrt(sq) ("surd").          *)
(***************************************************************************)
EXTENDS Integers, Sequences, FiniteSets, TLC

VARIABLES
    df_clean,    \* main.py:26   the price table the caller holds
    df_return,   \* main.py:30   outcome of calculate_return(df_clean)
    df_std,      \* main.py:31   outcome of calculate_std(df_clean)
    df_sharpe,   \* main.py:33   outcome of calculate_sharpe_ratio(df_return, df_std)
    frame,       \* analysis.py:27/50  the callee's local `df` after the weekly_return column is set
    hyp          \* main.py:40   outcome of test_hypothesis(df_sharpe, alpha)

vars == <<df_clean, df_return, df_std, df_sharpe, frame, hyp>>

---------------------------------------------------------------------------
(* Bounds of the model *)

MaxRows == 3        \* rows of a price table
MaxPairs == 3       \* rows of a table handed directly to test_hypothesis
MaxValue == 1       \* metric values of a caller-supplied table are 0..MaxValue, plus NaN

Stocks == {"A", "B"}
StockRank(s) == IF s = "A" THEN 1 ELSE 2     \* lexicographic order of the ids

\* The 'date' and 'close' values of a price row: three weeks (enough to put
\* the rows of a series of three observations in any order) or no date, and
\* two prices (period returns 0, 1 and -1/2).
NaT == 0            \* a null timestamp (pandas NaT)
Dates == {NaT, 1, 2, 3}
Closes == {1, 2}

---------------------------------------------------------------------------
(* float64 values *)

Abs(i) == IF i < 0 THEN -i ELSE i
Sign(i) == IF i < 0 THEN -1 ELSE IF i = 0 THEN 0 ELSE 1

RECURSIVE Gcd(_, _)
Gcd(a, b) == IF b = 0 THEN a ELSE Gcd(b, a % b)

NaN == [k |-> "nan", n |-> 0, d |-> 1]
Inf == [k |-> "inf", n |-> 1, d |-> 1]
NegInf == [k |-> "inf", n |-> -1, d |-> 1]

\* the rational n/d, d # 0, in lowest terms with a positive denominator
Rat(n, d) ==
    LET g == Gcd(Abs(n), Abs(d))
        s == IF d < 0 THEN -1 ELSE 1
    IN  [k |-> "num", n |-> (s * n) \div g, d |-> (s * d) \div g]

Num(i) == Rat(i, 1)
Zero == Num(0)
One == Num(1)

IsNaN(a) == a.k = "nan"
IsInf(a) == a.k = "inf"
InfOf(sgn) == IF sgn < 0 THEN NegInf ELSE Inf

FNeg(a) == IF IsNaN(a) THEN NaN ELSE [a EXCEPT !.n = -a.n]

FAdd(a, b) ==
    IF IsNaN(a) \/ IsNaN(b) THEN NaN
    ELSE IF IsInf(a) /\ IsInf(b) THEN (IF a.n = b.n THEN a ELSE NaN)
    ELSE IF IsInf(a) THEN a
    ELSE IF IsInf(b) THEN b
    ELSE Rat(a.n * b.d + b.n * a.d, a.d * b.d)

FSub(a, b) == FAdd(a, FNeg(b))

FMul(a, b) ==
    IF IsNaN(a) \/ IsNaN(b) THEN NaN
    ELSE IF IsInf(a) \/ IsInf(b)
         THEN (IF a.n = 0 \/ b.n = 0 THEN NaN ELSE InfOf(Sign(a.n) * Sign(b.n)))
    ELSE Rat(a.n * b.n, a.d * b.d)

FDiv(a, b) ==
    IF IsNaN(a) \/ IsNaN(b) THEN NaN
    ELSE IF IsInf(a) THEN (IF IsInf(b) THEN NaN
                           ELSE InfOf(a.n * (IF b.n < 0 THEN -1 ELSE 1)))
    ELSE IF IsInf(b) THEN Zero
    ELSE IF b.n = 0 THEN (IF a.n = 0 THEN NaN ELSE InfOf(a.n))
    ELSE Rat(a.n * b.d, a.d * b.n)

\* a < b; false when either is NaN
FLt(a, b) ==
    IF IsNaN(a) \/ IsNaN(b) THEN FALSE
    ELSE IF IsInf(a) THEN a.n < 0 /\ ~(IsInf(b) /\ b.n < 0)
    ELSE IF IsInf(b) THEN b.n > 0
    ELSE a.n * b.d < b.n * a.d

FGt(a, b) == FLt(b, a)

RECURSIVE FSum(_)
FSum(s) == IF s = <<>> THEN Zero ELSE FAdd(Head(s), FSum(Tail(s)))

\* sgn * sqrt(sq): the values that went through a square root
SNaN == [sgn |-> 0, sq |-> NaN]
Surd(sgn, sq) ==
    IF IsNaN(sq) THEN SNaN
    ELSE IF sq = Zero \/ sgn = 0 THEN [sgn |-> 0, sq |-> Zero]
    ELSE [sgn |-> sgn, sq |-> sq]

\* np.sqrt of a non-negative float
Sqrt(q) == Surd(1, q)
SIsNaN(s) == IsNaN(s.sq)
SIsZero(s) == s.sq = Zero

\* s * sqrt(k), k a positive integer
SMulSqrt(s, k) == Surd(s.sgn, FMul(s.sq, Num(k)))

\* a / s for a float a and a surd s >= 0
FDivSurd(a, s) ==
    IF IsNaN(a) \/ SIsNaN(s) THEN SNaN
    ELSE Surd(Sign(a.n), FDiv(FMul(a, a), s.sq))

---------------------------------------------------------------------------
(* DataFrames: ordered columns and ordered rows (records keyed by column) *)

DataFrame(cols, rows) == [cols |-> cols, rows |-> rows]
Range(s) == {s[i] : i \in DOMAIN s}
HasCol(df, c) == c \in Range(df.cols)
Empty(df) == Len(df.rows) = 0 \/ Len(df.cols) = 0          \* DataFrame.empty

PriceCols == <<"stock", "date", "close">>
NoFrame == DataFrame(<<>>, <<>>)                            \* pd.DataFrame()

\* what a call left behind: it returned a frame, or raised
Unbound == [status |-> "unbound", exc |-> "", df |-> NoFrame]
Returned(df) == [status |-> "returned", exc |-> "", df |-> df]
Raised(e) == [status |-> "raised", exc |-> e, df |-> NoFrame]

---------------------------------------------------------------------------
(* pandas operations used by calculate_return and calculate_std *)

\* ascending order of the 'date' key, NaT last (na_position='last')
DateLess(a, b) == a # NaT /\ (b = NaT \/ a < b)

\* ascending lexicographic order of the sort key ['stock', 'date']
KeyLess(a, b) ==
    \/ StockRank(a.stock) < StockRank(b.stock)
    \/ a.stock = b.stock /\ DateLess(a.date, b.date)

\* r placed after every row of the sorted s that is not greater than it
RECURSIVE InsertSorted(_, _)
InsertSorted(s, r) ==
    IF s = <<>> THEN <<r>>
    ELSE IF KeyLess(r, Head(s)) THEN <<r>> \o s
    ELSE <<Head(s)>> \o InsertSorted(Tail(s), r)

\* the rows in ascending key order, rows of equal key in their input order
RECURSIVE SortRows(_)
SortRows(rows) ==
    IF rows = <<>> THEN <<>>
    ELSE InsertSorted(SortRows(SubSeq(rows, 1, Len(rows) - 1)), rows[Len(rows)])

\* sort_values(..., inplace=True): the receiver itself is reordered
sort_values_inplace(df) == [obj |-> "arg", df |-> DataFrame(df.cols, SortRows(df.rows))]

\* df.sort_values(by=['stock', 'date']): inplace defaults to False, so the
\* result is a new object and the receiver is left as it was
sort_values(df) == [obj |-> "new", df |-> DataFrame(df.cols, SortRows(df.rows))]

\* df['close'].pct_change() without the groupby: the row just above
PrevRow(rows, i) == i - 1

\* the row before row i within i's 'stock' group, 0 when i is the group's first
PrevInGroup(rows, i) ==
    LET before == {j \in 1..(i - 1) : rows[j].stock = rows[i].stock}
    IN  IF before = {} THEN 0 ELSE CHOOSE j \in before : \A m \in before : m <= j

\* df.groupby('stock')['close'].pct_change(): close / previous close of the
\* group - 1, NaN for the first row of each group
pct_change(rows) ==
    [i \in 1..Len(rows) |->
        LET j == PrevInGroup(rows, i)
        IN  IF j = 0 THEN NaN
            ELSE FSub(FDiv(Num(rows[i].close), Num(rows[j].close)), One)]

\* df['weekly_return'] = ... on a price frame
set_weekly_return(df) ==
    LET pc == pct_change(df.rows)
    IN  DataFrame(Append(df.cols, "weekly_return"),
                  [i \in 1..Len(df.rows) |->
                      [stock |-> df.rows[i].stock, date |-> df.rows[i].date,
                       close |-> df.rows[i].close, weekly_return |-> pc[i]]])

\* the group keys of groupby('stock') (sort=True): the distinct ids, ascending
RECURSIVE SortedKeys(_)
SortedKeys(S) ==
    IF S = {} THEN <<>>
    ELSE LET m == CHOOSE s \in S : \A t \in S : StockRank(s) <= StockRank(t)
         IN  <<m>> \o SortedKeys(S \ {m})

GroupKeys(rows) == SortedKeys({rows[i].stock : i \in DOMAIN rows})

\* the non-NaN weekly returns of group s, in row order (skipna)
GroupReturns(rows, s) ==
    LET grp == SelectSeq(rows, LAMBDA r : r.stock = s /\ ~IsNaN(r.weekly_return))
    IN  [i \in 1..Len(grp) |-> grp[i].weekly_return]

\* GroupBy.mean of one group: NaN when the group has no defined value
Mean(xs) == IF Len(xs) = 0 THEN NaN ELSE FDiv(FSum(xs), Num(Len(xs)))

\* GroupBy.std (ddof=1) of one group, squared: NaN with fewer than 2 values
Var(xs) ==
    IF Len(xs) < 2 THEN NaN
    ELSE LET m == Mean(xs)
             sq == [i \in 1..Len(xs) |-> FMul(FSub(xs[i], m), FSub(xs[i], m))]
         IN  FDiv(FSum(sq), Num(Len(xs) - 1))

Std(xs) == Sqrt(Var(xs))

PeriodsPerYear == 52

---------------------------------------------------------------------------
(* analysis.py *)

\* lines 29-34: one row per group key
ReturnRows(rows) ==
    LET keys == GroupKeys(rows)
    IN  [i \in 1..Len(keys) |->
            [stock |-> keys[i],
             annualized_return |->
                 FMul(Mean(GroupReturns(rows, keys[i])), Num(PeriodsPerYear))]]

\* lines 53-58
StdRows(rows) ==
    LET keys == GroupKeys(rows)
    IN  [i \in 1..Len(keys) |->
            [stock |-> keys[i],
             annualized_std |->
                 SMulSqrt(Std(GroupReturns(rows, keys[i])), PeriodsPerYear)]]

\* calculate_return(df).  result: what the call returns; arg: the contents of
\* the caller's table when the call ends; local: the callee's `df` after line 27
calculate_return(df) ==
    IF Empty(df)
    THEN [result |-> Returned(df), arg |-> df, local |-> NoFrame]
    ELSE LET sorted == sort_values(df)
             local == set_weekly_return(sorted.df)
         IN  [result |-> Returned(DataFrame(<<"stock", "annualized_return">>,
                                            ReturnRows(local.rows))),
              arg |-> IF sorted.obj = "new" THEN df ELSE local,
              local |-> local]

\* calculate_std(df)
calculate_std(df) ==
    IF Empty(df)
    THEN [result |-> Returned(df), arg |-> df, local |-> NoFrame]
    ELSE LET sorted == sort_values(df)
             local == set_weekly_return(sorted.df)
         IN  [result |-> Returned(DataFrame(<<"stock", "annualized_std">>,
                                            StdRows(local.rows))),
              arg |-> IF sorted.obj = "new" THEN df ELSE local,
              local |-> local]

---------------------------------------------------------------------------
(* pd.merge and calculate_sharpe_ratio *)

\* the '_x' / '_y' names merge gives a column that both sides carry
SuffixX(c) ==
    CASE c = "date" -> "date_x"
      [] c = "close" -> "close_x"
      [] c = "annualized_return" -> "annualized_return_x"
      [] c = "annualized_std" -> "annualized_std_x"
      [] OTHER -> "other_x"

SuffixY(c) ==
    CASE c = "date" -> "date_y"
      [] c = "close" -> "close_y"
      [] c = "annualized_return" -> "annualized_return_y"
      [] c = "annualized_std" -> "annualized_std_y"
      [] OTHER -> "other_y"

\* how='cross': every left row with every right row
JoinCross(lrows, rrows, on) ==
    [i \in 1..(Len(lrows) * Len(rrows)) |->
        <<lrows[((i - 1) \div Len(rrows)) + 1], rrows[((i - 1) % Len(rrows)) + 1]>>]

\* for each left row in order, the right rows of the same key in order
RECURSIVE JoinPairs(_, _, _)
JoinPairs(lrows, rrows, on) ==
    IF lrows = <<>> THEN <<>>
    ELSE LET l == Head(lrows)
             ms == SelectSeq(rrows, LAMBDA r : r[on] = l[on])
         IN  [i \in 1..Len(ms) |-> <<l, ms[i]>>] \o JoinPairs(Tail(lrows), rrows, on)

\* pd.merge(left, right, on=on, how='inner'): KeyError when a side has no
\* column `on`; a new frame otherwise
merge(left, right, on) ==
    IF ~HasCol(left, on) \/ ~HasCol(right, on) THEN Raised("KeyError")
    ELSE LET both == (Range(left.cols) \cap Range(right.cols)) \ {on}
             lcols == SelectSeq(left.cols, LAMBDA c : c # on)
             rcols == SelectSeq(right.cols, LAMBDA c : c # on)
             lname(c) == IF c \in both THEN SuffixX(c) ELSE c
             rname(c) == IF c \in both THEN SuffixY(c) ELSE c
             cols == <<on>> \o [i \in 1..Len(lcols) |-> lname(lcols[i])]
                            \o [i \in 1..Len(rcols) |-> rname(rcols[i])]
             pairs == JoinPairs(left.rows, right.rows, on)
             row(l, r) ==
                 [c \in Range(cols) |->
                     IF c = on THEN l[on]
                     ELSE IF \E lc \in Range(lcols) : lname(lc) = c
                          THEN l[CHOOSE lc \in Range(lcols) : lname(lc) = c]
                          ELSE r[CHOOSE rc \in Range(rcols) : rname(rc) = c]]
         IN  Returned(DataFrame(cols,
                 [i \in 1..Len(pairs) |-> row(pairs[i][1], pairs[i][2])]))

SharpeCols == <<"stock", "annualized_return", "annualized_std", "sharpe_ratio">>

\* lines 74-76 on one merged row: element-wise float arithmetic, no exception
sharpe_ratio(r, risk_free_rate) ==
    FDivSurd(FSub(r.annualized_return, risk_free_rate), r.annualized_std)

\* calculate_sharpe_ratio(df_return, df_std, risk_free_rate)
calculate_sharpe_ratio(dfr, dfs, risk_free_rate) ==
    LET m == merge(dfr, dfs, "stock")
    IN  IF m.status = "raised" THEN m
        ELSE IF ~HasCol(m.df, "annualized_return") \/ ~HasCol(m.df, "annualized_std")
             THEN Raised("KeyError")
        ELSE Returned(DataFrame(SharpeCols,
                 [i \in 1..Len(m.df.rows) |->
                     [stock |-> m.df.rows[i].stock,
                      annualized_return |-> m.df.rows[i].annualized_return,
                      annualized_std |-> m.df.rows[i].annualized_std,
                      sharpe_ratio |-> sharpe_ratio(m.df.rows[i], risk_free_rate)]]))

---------------------------------------------------------------------------
(* The pipeline of main.py on one price table.  Each statement of main runs  *)
(* once; the two metric calls (lines 30 and 31) are taken in either order.   *)

RECURSIVE SeqsUpTo(_, _)
SeqsUpTo(S, n) ==
    IF n = 0 THEN {<<>>}
    ELSE LET shorter == SeqsUpTo(S, n - 1)
         IN  shorter \cup {Append(q, x) : q \in shorter, x \in S}

PriceRows == [stock : Stocks, date : Dates, close : Closes]

\* what clean_data hands on: pd.DataFrame() when the file is missing
\* (data.py:25, 42-43), a table of price rows otherwise
PriceTables ==
    {NoFrame} \cup {DataFrame(PriceCols, rows) : rows \in SeqsUpTo(PriceRows, MaxRows)}

\* main.py:16 RISK_FREE_RATE = 0.00 and the default of analysis.py:60, 0.02
RiskFreeRates == {Zero, Rat(1, 50)}

NoHyp == [status |-> "unbound", exc |-> "", alpha |-> NaN, slope |-> NaN,
          intercept |-> NaN, p_value |-> NaN, p_value_one_sided |-> NaN,
          verdict |-> ""]

Init ==
    /\ df_clean \in PriceTables
    /\ df_return = Unbound
    /\ df_std = Unbound
    /\ df_sharpe = Unbound
    /\ frame = NoFrame
    /\ hyp = NoHyp

\* main.py:30
CalculateReturn ==
    LET c == calculate_return(df_clean)
    IN  /\ df_return.status = "unbound"
        /\ df_return' = c.result
        /\ df_clean' = c.arg
        /\ frame' = IF Empty(df_clean) THEN frame ELSE c.local
        /\ UNCHANGED <<df_std, df_sharpe, hyp>>

\* main.py:31
CalculateStd ==
    LET c == calculate_std(df_clean)
    IN  /\ df_std.status = "unbound"
        /\ df_std' = c.result
        /\ df_clean' = c.arg
        /\ frame' = IF Empty(df_clean) THEN frame ELSE c.local
        /\ UNCHANGED <<df_return, df_sharpe, hyp>>

\* main.py:33-37
CalculateSharpeRatio ==
    /\ df_return.status = "returned"
    /\ df_std.status = "returned"
    /\ df_sharpe.status = "unbound"
    /\ \E rf \in RiskFreeRates :
           df_sharpe' = calculate_sharpe_ratio(df_return.df, df_std.df, rf)
    /\ UNCHANGED <<df_clean, df_return, df_std, frame, hyp>>

Next == CalculateReturn \/ CalculateStd \/ CalculateSharpeRatio

Spec == Init /\ [][Next]_vars

---------------------------------------------------------------------------
(* calculate_sharpe_ratio on metric tables the caller supplies *)

\* the sequences over S that name no element twice
RECURSIVE UniqueSeqs(_)
UniqueSeqs(S) ==
    {<<>>} \cup UNION {{<<x>> \o q : q \in UniqueSeqs(S \ {x})} : x \in S}

ReturnValues == {NaN} \cup {Num(v) : v \in 0..MaxValue}
StdValues == {SNaN} \cup {Sqrt(Num(v)) : v \in 0..MaxValue}

\* ReturnMetric / RiskMetric tables: instrument ids unique (they are group keys)
ReturnTables ==
    UNION {{DataFrame(<<"stock", "annualized_return">>,
                      [i \in 1..Len(ks) |-> [stock |-> ks[i], annualized_return |-> f[i]]])
            : f \in [1..Len(ks) -> ReturnValues]} : ks \in UniqueSeqs(Stocks)}

StdTables ==
    UNION {{DataFrame(<<"stock", "annualized_std">>,
                      [i \in 1..Len(ks) |-> [stock |-> ks[i], annualized_std |-> f[i]]])
            : f \in [1..Len(ks) -> StdValues]} : ks \in UniqueSeqs(Stocks)}

InitJoin ==
    /\ df_clean = NoFrame
    /\ df_return \in {Returned(t) : t \in ReturnTables}
    /\ df_std \in {Returned(t) : t \in StdTables}
    /\ df_sharpe = Unbound
    /\ frame = NoFrame
    /\ hyp = NoHyp

NextJoin == CalculateSharpeRatio

SpecJoin == InitJoin /\ [][NextJoin]_vars

---------------------------------------------------------------------------
(* scipy.stats.linregress and test_hypothesis.  The least-squares fit needs  *)
(* sums and products of the risk values, so here the table is one the caller *)
(* supplies with rational (or NaN) risk and return values, as                *)
(* test_hypothesis accepts any frame with the two columns.                   *)

\* == on floats: false when either side is NaN
FEq(a, b) == ~IsNaN(a) /\ ~IsNaN(b) /\ a = b

Column(df, c) == [i \in 1..Len(df.rows) |-> df.rows[i][c]]

\* np.mean: NaN as soon as one element is NaN
NpMean(xs) == FDiv(FSum(xs), Num(Len(xs)))

\* np.amax(x) == np.amin(x): every element the same, and none NaN
AllIdentical(xs) == \A i \in DOMAIN xs : FEq(xs[i], xs[1])

\* The two-sided p-values linregress can return for n points with the given
\* moments.  n = 2 is scipy's special case.  n = 1 gives df = -1 and the
\* square root of a negative number, NaN.  For n >= 3 the value comes from the
\* t distribution: 1 when r = 0, NaN when r is NaN, and otherwise some value
\* strictly between 0 and 1, which is left open over a grid.
PGrid == {Rat(1, 50), Rat(1, 10), Rat(1, 2)}

PValues(n, ys, ssxm, ssxym, ssym) ==
    IF n = 2 THEN {IF FEq(ys[1], ys[2]) THEN One ELSE Zero}
    ELSE IF n < 2 THEN {NaN}
    ELSE IF FEq(ssxm, Zero) \/ FEq(ssym, Zero) THEN {One}
    ELSE IF IsNaN(ssxm) \/ IsNaN(ssym) \/ IsNaN(ssxym) THEN {NaN}
    ELSE IF ssxym = Zero THEN {One}
    ELSE PGrid

\* stats.linregress(x, y): slope, intercept and the p-values open to it
linregress(xs, ys) ==
    IF Len(xs) = 0 \/ Len(ys) = 0 THEN Raised("ValueError")
    ELSE IF Len(xs) > 1 /\ AllIdentical(xs) THEN Raised("ValueError")
    ELSE LET n == Len(xs)
             xmean == NpMean(xs)
             ymean == NpMean(ys)
             dx == [i \in 1..n |-> FSub(xs[i], xmean)]
             dy == [i \in 1..n |-> FSub(ys[i], ymean)]
             ssxm == NpMean([i \in 1..n |-> FMul(dx[i], dx[i])])
             ssxym == NpMean([i \in 1..n |-> FMul(dx[i], dy[i])])
             ssym == NpMean([i \in 1..n |-> FMul(dy[i], dy[i])])
             slope == FDiv(ssxym, ssxm)
         IN  [status |-> "returned", exc |-> "",
              slope |-> slope,
              intercept |-> FSub(ymean, FMul(slope, xmean)),
              p_values |-> PValues(n, ys, ssxm, ssxym, ssym)]

\* the two-sided p-value used as it is
one_sided_unhalved(slope, p_value) ==
    IF FGt(slope, Zero) THEN p_value ELSE One

\* lines 100-103
one_sided(slope, p_value) ==
    IF FGt(slope, Zero) THEN FDiv(p_value, Num(2)) ELSE One

\* <= in place of <
conclusion_le(slope, p_value_one_sided, alpha) ==
    IF ~FGt(p_value_one_sided, alpha) /\ ~IsNaN(p_value_one_sided) /\ FGt(slope, Zero)
    THEN "Reject Null Hypothesis"
    ELSE "Fail to reject Null Hypothesis"

\* lines 110-115
conclusion(slope, p_value_one_sided, alpha) ==
    IF FLt(p_value_one_sided, alpha) /\ FGt(slope, Zero)
    THEN "Reject Null Hypothesis"
    ELSE "Fail to reject Null Hypothesis"

\* lines 98-117 once linregress has returned slope, intercept and p_value
report(slope, intercept, p_value, alpha) ==
    LET p_value_one_sided == one_sided(slope, p_value)
    IN  [status |-> "returned", exc |-> "", alpha |-> alpha,
         slope |-> slope, intercept |-> intercept,
         p_value |-> p_value, p_value_one_sided |-> p_value_one_sided,
         verdict |-> conclusion(slope, p_value_one_sided, alpha)]

\* test_hypothesis(df_sharpe_ratio, alpha): the outcomes open to the call, one
\* for each p-value open to linregress
test_hypothesis(df, alpha) ==
    IF ~HasCol(df, "annualized_std") \/ ~HasCol(df, "annualized_return")
    THEN {[NoHyp EXCEPT !.status = "raised", !.exc = "KeyError", !.alpha = alpha]}
    ELSE LET lr == linregress(Column(df, "annualized_std"),
                              Column(df, "annualized_return"))
         IN  IF lr.status = "raised"
             THEN {[NoHyp EXCEPT !.status = "raised", !.exc = lr.exc, !.alpha = alpha]}
             ELSE {report(lr.slope, lr.intercept, p, alpha) : p \in lr.p_values}

\* risk / return tables handed to test_hypothesis (analysis.py:87)
RiskValues == {NaN} \cup {Num(v) : v \in 0..MaxValue}
PairRows == [annualized_std : RiskValues, annualized_return : {Num(v) : v \in 0..MaxValue}]
HypTables ==
    {DataFrame(<<"annualized_std", "annualized_return">>, rows)
        : rows \in SeqsUpTo(PairRows, MaxPairs)}

\* main.py:17 ALPHA = 0.05 (also the default of analysis.py:80), and 0.01
Alphas == {Rat(1, 20), Rat(1, 100)}

InitHyp ==
    /\ df_clean = NoFrame
    /\ df_return = Unbound
    /\ df_std = Unbound
    /\ df_sharpe \in {Returned(t) : t \in HypTables}
    /\ frame = NoFrame
    /\ hyp = NoHyp

\* main.py:40
TestHypothesis ==
    /\ df_sharpe.status = "returned"
    /\ hyp.status = "unbound"
    /\ \E alpha \in Alphas : hyp' \in test_hypothesis(df_sharpe.df, alpha)
    /\ UNCHANGED <<df_clean, df_return, df_std, df_sharpe, frame>>

NextHyp == TestHypothesis

SpecHyp == InitHyp /\ [][NextHyp]_vars

---------------------------------------------------------------------------
(* Properties *)

Rows(o) == o.df.rows
StocksOf(rows) == {rows[i].stock : i \in DOMAIN rows}

\* the observations (row numbers) of instrument s in the caller's table
Obs(s) == {i \in DOMAIN df_clean.rows : df_clean.rows[i].stock = s}

\* an observation the input boundary accepts: a timestamp, a positive close
ValidRow(r) == r.date # NaT /\ r.close > 0

\* s is a time series: valid observations, no timestamp twice
TimeSeries(s) ==
    \A i \in Obs(s) :
        /\ ValidRow(df_clean.rows[i])
        /\ \A j \in Obs(s) \ {i} : df_clean.rows[j].date # df_clean.rows[i].date

\* every instrument of the caller's table is a time series
InputValid == \A s \in Stocks : TimeSeries(s)

\* the observation of s just before observation i in time, 0 for the earliest
Earlier(s, i) == {j \in Obs(s) : df_clean.rows[j].date < df_clean.rows[i].date}
Previous(s, i) ==
    IF Earlier(s, i) = {} THEN 0
    ELSE CHOOSE j \in Earlier(s, i) :
             \A m \in Earlier(s, i) : df_clean.rows[m].date <= df_clean.rows[j].date

\* close[t] / close[t-1] - 1 = (close[t] - close[t-1]) / close[t-1]
PeriodReturn(s, i) ==
    LET j == Previous(s, i)
    IN  Rat(df_clean.rows[i].close - df_clean.rows[j].close, df_clean.rows[j].close)

RECURSIVE SumPeriodReturns(_, _)
SumPeriodReturns(s, I) ==
    IF I = {} THEN Zero
    ELSE LET i == CHOOSE x \in I : TRUE
         IN  FAdd(PeriodReturn(s, i), SumPeriodReturns(s, I \ {i}))

\* the mean of the period returns of s: every observation but the earliest has one
MeanPeriodReturn(s) ==
    LET I == {i \in Obs(s) : Previous(s, i) # 0}
    IN  FDiv(SumPeriodReturns(s, I), Num(Cardinality(I)))

\* C1: for every instrument that is a time series of at least 2 observations,
\* in whatever row order the table lists them, calculate_return gives exactly
\* one row, whose annualized_return is 52 times the mean of the period returns
\* close[t]/close[t-1] - 1 between observations of that instrument consecutive
\* in time; the earliest observation has no return and none spans two
\* instruments.
C1_AnnualizedReturn ==
    (df_return.status = "returned" /\ ~Empty(df_clean)) =>
        \A s \in Stocks :
            (Cardinality(Obs(s)) >= 2 /\ TimeSeries(s)) =>
                /\ Cardinality({k \in DOMAIN Rows(df_return) :
                                    Rows(df_return)[k].stock = s}) = 1
                /\ \A k \in DOMAIN Rows(df_return) :
                       Rows(df_return)[k].stock = s =>
                           Rows(df_return)[k].annualized_return
                               = FMul(MeanPeriodReturn(s), Num(PeriodsPerYear))

\* an instrument listed latest-first, with another instrument's row in between
C1_Witness ==
    /\ df_return.status = "returned"
    /\ \E s \in Stocks :
         /\ TimeSeries(s)
         /\ \E i, j, k \in DOMAIN df_clean.rows :
              /\ i < j /\ j < k
              /\ df_clean.rows[i].stock = s /\ df_clean.rows[k].stock = s
              /\ df_clean.rows[j].stock # s
              /\ df_clean.rows[i].date > df_clean.rows[k].date
              /\ df_clean.rows[i].close # df_clean.rows[k].close

\* C2: the table calculate_sharpe_ratio returns holds exactly the instruments
\* present in both the return table and the risk table (an instrument on one
\* side only is dropped, and nothing is raised), in at most
\* min(|ReturnMetric|, |RiskMetric|) rows.
C2_JoinLaw ==
    df_sharpe.status # "unbound" =>
        /\ df_sharpe.status = "returned"
        /\ StocksOf(Rows(df_sharpe)) = StocksOf(Rows(df_return)) \cap StocksOf(Rows(df_std))
        /\ Len(Rows(df_sharpe)) <= Len(Rows(df_return))
        /\ Len(Rows(df_sharpe)) <= Len(Rows(df_std))

\* an instrument on each side only, and one on both
C2_Witness ==
    /\ df_sharpe.status = "returned"
    /\ Len(Rows(df_sharpe)) = 1
    /\ StocksOf(Rows(df_return)) \ StocksOf(Rows(df_std)) # {}
    /\ Len(Rows(df_return)) = 2

\* C3: when test_hypothesis fits a slope <= 0 the one-sided p-value is 1.0
\* whatever the two-sided p-value is; when the slope is > 0 it is half the
\* two-sided p-value.
C3_DirectionalPValue ==
    hyp.status = "returned" =>
        /\ (~IsNaN(hyp.slope) /\ ~FGt(hyp.slope, Zero)) => hyp.p_value_one_sided = One
        /\ FGt(hyp.slope, Zero) => hyp.p_value_one_sided = FDiv(hyp.p_value, Num(2))

\* a positive slope whose two-sided p-value is not 0
C3_Witness ==
    /\ hyp.status = "returned"
    /\ FGt(hyp.slope, Zero)
    /\ FGt(hyp.p_value, Zero)
    /\ hyp.p_value_one_sided = FDiv(hyp.p_value, Num(2))

\* C4: test_hypothesis reports the null hypothesis rejected exactly when
\* slope > 0 and one_sided_p_value < alpha, and 'fail to reject' otherwise.
C4_Verdict ==
    hyp.status = "returned" =>
        /\ hyp.verdict \in {"Reject Null Hypothesis", "Fail to reject Null Hypothesis"}
        /\ hyp.verdict = "Reject Null Hypothesis"
               <=> (FGt(hyp.slope, Zero) /\ FLt(hyp.p_value_one_sided, hyp.alpha))

\* a positive slope whose one-sided p-value is exactly alpha: not rejected
C4_Witness ==
    /\ hyp.status = "returned"
    /\ FGt(hyp.slope, Zero)
    /\ hyp.p_value_one_sided = hyp.alpha
    /\ hyp.verdict = "Fail to reject Null Hypothesis"

ZeroRows(o) == o.status = "returned" /\ Len(Rows(o)) = 0

\* C5: on a price table of zero rows calculate_return, calculate_std and
\* calculate_sharpe_ratio each end without raising, in a zero-row table.
C5_EmptyInputPropagates ==
    Len(df_clean.rows) = 0 =>
        /\ df_return.status # "unbound" => ZeroRows(df_return)
        /\ df_std.status # "unbound" => ZeroRows(df_std)
        /\ df_sharpe.status # "unbound" => ZeroRows(df_sharpe)

\* C6: on a valid table, an instrument with fewer than two observations has
\* no row in the output of calculate_return nor of calculate_std, and no row
\* of either carries a NaN metric.
C6_InsufficientDataExcluded ==
    /\ df_return.status = "returned" /\ ~Empty(df_clean) /\ InputValid =>
          \A k \in DOMAIN Rows(df_return) :
              /\ Cardinality(Obs(Rows(df_return)[k].stock)) >= 2
              /\ ~IsNaN(Rows(df_return)[k].annualized_return)
    /\ df_std.status = "returned" /\ ~Empty(df_clean) /\ InputValid =>
          \A k \in DOMAIN Rows(df_std) :
              /\ Cardinality(Obs(Rows(df_std)[k].stock)) >= 2
              /\ ~SIsNaN(Rows(df_std)[k].annualized_std)

\* C7: on the metrics of a valid table, calculate_sharpe_ratio never returns
\* a table with a joined row whose annualized_std is zero (it reports a
\* failure instead), so no returned row of zero risk carries an infinite or
\* NaN sharpe_ratio.
C7_DegenerateVarianceReported ==
    (df_sharpe.status = "returned" /\ InputValid) =>
        \A k \in DOMAIN Rows(df_sharpe) : ~SIsZero(Rows(df_sharpe)[k].annualized_std)

\* the (risk, return) pairs of the table with both values defined
ValidPairs(df) ==
    {i \in DOMAIN df.rows :
        ~IsNaN(df.rows[i].annualized_std) /\ ~IsNaN(df.rows[i].annualized_return)}

\* C8: test_hypothesis on a table with fewer than 2 valid (risk, return)
\* pairs, or whose risk values are all identical, ends in a raised failure:
\* no verdict, no (slope, intercept).
C8_UndefinedRegressionReported ==
    (/\ hyp.status # "unbound"
     /\ \/ Cardinality(ValidPairs(df_sharpe.df)) < 2
        \/ AllIdentical(Column(df_sharpe.df, "annualized_std")))
        => hyp.status = "raised"

\* C9: no period return of the weekly_return column is computed from an
\* observation with a null timestamp or a non-positive close.
C9_InputValidated ==
    \A i \in DOMAIN frame.rows :
        PrevInGroup(frame.rows, i) # 0 =>
            /\ ValidRow(frame.rows[i])
            /\ ValidRow(frame.rows[PrevInGroup(frame.rows, i)])

\* C10: no call changes a table the caller passed in: df_clean stays as
\* supplied (rows, row order, columns) through calculate_return and
\* calculate_std, and calculate_sharpe_ratio leaves both metric tables alone.
C10_InputsUnchanged ==
    [][/\ df_clean' = df_clean
       /\ df_sharpe' # df_sharpe => (df_return' = df_return /\ df_std' = df_std)]_vars

\* every call made on a table that is not in sort order
C10_Witness ==
    /\ df_return.status = "returned"
    /\ df_std.status = "returned"
    /\ df_sharpe.status = "returned"
    /\ frame # NoFrame
    /\ df_clean.cols = PriceCols
    /\ df_clean.rows # SortRows(df_clean.rows)

====
